---- MODULE Spec2Model ----
(***************************************************************************)
(* Model of main.py of the audiobook generator: the whitespace clean-up    *)
(* of extract_chapters_from_epub, the extraction of chapters, the          *)
(* per-chapter loop of generate_audiobook, save_audio_as_m4b and the       *)
(* script entry point.                                                     *)
(*                                                                         *)
(* A text is a sequence of characters.  Files are modelled by sets: the    *)
(* output directory by the set of records of the files in it, the         *)
(* temporary directory by the set of temporary WAV files that exist.       *)
(* The libraries (ebooklib, BeautifulSoup, Kokoro, soundfile, pydub,       *)
(* mutagen) are the environment: each call either returns or raises.       *)
(***************************************************************************)
EXTENDS Integers, Sequences, FiniteSets

\* ---------------------------------------------------------------- bounds
MaxLen == 5        \* longest input text of the text specification
MaxItems == 3      \* most items in the EPUB
MaxSegs == 2       \* most segments the synthesizer yields for a chapter

\* ------------------------------------------------------------ characters
NL == "\n"
SP == " "
LetterX == "x"
Alphabet == {LetterX, SP, NL}

\* \s of the pattern and the characters str.strip() removes
IsSpace(c) == c \in {SP, NL}

Rep(c, n) == [i \in 1..n |-> c]

\* ------------------------------------------- re.sub(r'\n\s*\n', '\n\n', .)
\* The positions j at which a match of \n\s*\n that starts at i can end.
MatchEnds(s, i) ==
  IF s[i] # NL THEN {}
  ELSE {j \in (i+1)..Len(s) :
          /\ s[j] = NL
          /\ \A k \in (i+1)..(j-1) : IsSpace(s[k])}

Max(S) == CHOOSE m \in S : \A n \in S : n <= m
Min(S) == CHOOSE m \in S : \A n \in S : m <= n

\* \s? in place of \s*: at most one character between the two newlines
MatchEndAtMostOne(s, i) ==
  LET E == {j \in MatchEnds(s, i) : j <= i + 2}
  IN  IF E = {} THEN 0 ELSE Max(E)

\* a lazy quantifier (\s*?) in place of the greedy one
MatchEndLazy(s, i) ==
  LET E == MatchEnds(s, i) IN IF E = {} THEN 0 ELSE Min(E)

\* End of the match at i (\s* is greedy: the last newline of the run), 0 when
\* the pattern does not match at i.
MatchEnd(s, i) ==
  LET E == MatchEnds(s, i) IN IF E = {} THEN 0 ELSE Max(E)

RECURSIVE SubFrom(_, _)
\* Leftmost non-overlapping matches, scanned from position i.
SubFrom(s, i) ==
  IF i > Len(s) THEN <<>>
  ELSE LET j == MatchEnd(s, i)
       IN  IF j # 0 THEN <<NL, NL>> \o SubFrom(s, j + 1)
           ELSE <<s[i]>> \o SubFrom(s, i + 1)

ReSub(s) == SubFrom(s, 1)

\* text.strip()
Strip(s) ==
  LET I == {i \in 1..Len(s) : ~IsSpace(s[i])}
  IN  IF I = {} THEN <<>> ELSE SubSeq(s, Min(I), Max(I))

\* lines 64-65
CleanText(s) == Strip(ReSub(s))

\* the texts of length at most n
Texts(n) == UNION {[1..k -> Alphabet] : k \in 0..n}

\* ---------------------------------------------------------------- state
VARIABLES
  pc,             \* where the script is
  epub_exists,    \* os.path.exists(epub_file)
  items,          \* book.get_items() of the EPUB
  retained,       \* the positions of the items the specification calls
                  \* retained: fixed by the book, kept for the claims
  dir_created,    \* the output directory has been created by the run
  chapters,       \* the list extract_chapters_from_epub returned
  total_chapters, \* len(chapters)
  idx,            \* position in chapters of the current iteration of the loop
  chapter_audio,  \* number of segments appended for the current chapter
  yielded,        \* per chapter processed, the number of segments yielded
  out_files,      \* the files of the output directory written by the run
  temp_files,     \* the temporary WAV files that exist
  messages,       \* what the script printed (the kinds the claims are about)
  raised,         \* the uncaught exception that ended the run, or "none"
  t_in,           \* text specification: the input text
  t_prev,         \* text specification: the text before the last step
  t_out,          \* text specification: the current text
  t_stage         \* text specification: the steps applied so far

vars == <<pc, epub_exists, items, retained, dir_created, chapters,
          total_chapters, idx, chapter_audio, yielded, out_files,
          temp_files, messages, raised, t_in, t_prev, t_out, t_stage>>

runVars == <<pc, epub_exists, items, retained, dir_created, chapters,
             total_chapters, idx, chapter_audio, yielded, out_files,
             temp_files, messages, raised>>

textVars == <<t_in, t_prev, t_out, t_stage>>

\* --------------------------------------------------------------- the EPUB
MinChapterLen == 50

\* item.get_name() of the i-th item
ItemName(i) == Rep("n", i)

XS(n) == Rep(LetterX, n)

\* the texts of two heading elements
H1 == <<SP, "H", SP>>
H2 == <<"G">>

\* The kinds of item of the model: a non-document resource, and documents
\* whose text is empty after the clean-up, a 10-character stub, 50 characters
\* that clean up to 49, exactly 50 characters, and 54 that clean up to 50.
ItemKinds ==
  { [type |-> "image",    headings |-> <<>>,       text |-> XS(MinChapterLen)],
    [type |-> "document", headings |-> <<>>,       text |-> <<NL, SP>>],
    [type |-> "document", headings |-> <<H1>>,     text |-> XS(10)],
    [type |-> "document", headings |-> <<>>,
       text |-> XS(24) \o <<NL, NL, NL>> \o XS(23)],
    [type |-> "document", headings |-> <<>>,       text |-> XS(MinChapterLen)],
    [type |-> "document", headings |-> <<H1, H2>>,
       text |-> <<SP>> \o XS(24) \o <<NL, SP, NL, NL>> \o XS(24) \o <<NL>>] }

Books ==
  UNION { { [i \in 1..n |-> [name |-> ItemName(i), type |-> ks[i].type,
                             headings |-> ks[i].headings, text |-> ks[i].text]]
            : ks \in [1..n -> ItemKinds] } : n \in 0..MaxItems }

\* ------------------------------------------- extract_chapters_from_epub
\* the type test left out: every item is taken for a document
IsDocumentAny(item) == TRUE

\* line 56
IsDocument(item) == item.type = "document"

\* an off-by-one threshold: a text of exactly MinChapterLen is dropped
SkipChapterOffByOne(text) == text = <<>> \/ Len(text) <= MinChapterLen

\* line 68: not text or len(text) < 50
SkipChapter(text) == text = <<>> \/ Len(text) < MinChapterLen

\* lines 72-75: the name of the item, or the stripped text of the first
\* h1/h2/h3 element when there is one
ChapterTitle(item) ==
  IF item.headings # <<>> THEN Strip(Head(item.headings)) ELSE item.name

\* chapter_num incremented for every document item, before the skip test
ExtractItemCountAll(acc, item) ==
  IF ~IsDocument(item) THEN acc
  ELSE LET text == CleanText(item.text)
           n == acc.chapter_num + 1
       IN  IF SkipChapter(text) THEN [acc EXCEPT !.chapter_num = n]
           ELSE [chapter_num |-> n,
                 chapters |-> Append(acc.chapters,
                    [num |-> n, title |-> ChapterTitle(item), text |-> text])]

\* One iteration of the loop of lines 55-79 on the item, from the values
\* acc.chapter_num and acc.chapters of the two locals.
ExtractItem(acc, item) ==
  IF ~IsDocument(item) THEN acc
  ELSE LET text == CleanText(item.text)
       IN  IF SkipChapter(text) THEN acc
           ELSE LET n == acc.chapter_num + 1
                IN  [chapter_num |-> n,
                     chapters |-> Append(acc.chapters,
                        [num |-> n, title |-> ChapterTitle(item), text |-> text])]

RECURSIVE ExtractLoop(_, _, _)
ExtractLoop(its, i, acc) ==
  IF i > Len(its) THEN acc
  ELSE ExtractLoop(its, i + 1, ExtractItem(acc, its[i]))

\* lines 51-81
ExtractChapters(its) ==
  ExtractLoop(its, 1, [chapter_num |-> 0, chapters |-> <<>>]).chapters

\* ------------------------------------------------------ save_audio_as_m4b
DigitChar(d) == <<"0", "1", "2", "3", "4", "5", "6", "7", "8", "9">>[d + 1]

RECURSIVE Decimal(_)
Decimal(n) ==
  IF n < 10 THEN <<DigitChar(n)>>
  ELSE Append(Decimal(n \div 10), DigitChar(n % 10))

\* the format {chapter_num:02d}
Pad2(n) == IF n < 10 THEN <<"0">> \o Decimal(n) ELSE Decimal(n)

\* line 208: the name of the output file in output_dir
OutputFile(chapter_num) == <<"chapter_">> \o Pad2(chapter_num) \o <<".m4b">>

\* the track total taken from the number of items of the book
ChapterMetadataRawCount(chapter_num, title, total) ==
  [title |-> <<"Chapter", chapter_num, title>>,
   track_num |-> chapter_num,
   total_tracks |-> Len(items)]

\* lines 196-205 (the fields that do not depend on the chapter left out)
ChapterMetadata(chapter_num, title, total) ==
  [title |-> <<"Chapter", chapter_num, title>>,
   track_num |-> chapter_num,
   total_tracks |-> total]

\* what can happen in one call: each library call returns or raises
SaveOutcomes ==
  {"ok", "write_error", "load_error", "export_error", "tag_error"}

\* tempfile.NamedTemporaryFile: a name no existing file has
TempName(temps) == Min({n \in 1..(Cardinality(temps) + 1) : n \notin temps})

\* the file of that name written or replaced in the directory
WriteFile(files, f) == {g \in files : g.name # f.name} \cup {f}

\* lines 104-110: the encoded file, without tags
Exported(output_file) == [name |-> output_file, tagged |-> FALSE]

\* lines 113-137: the file with the tags saved
Tagged(output_file, metadata) ==
  [name |-> output_file, tagged |-> TRUE,
   nam |-> metadata.title,
   trkn |-> <<metadata.track_num, metadata.total_tracks>>,
   stik |-> 2]

\* lines 93-142.  outcome says which call raises, if any; partial says
\* whether a failing export had already created the output file.  The result
\* is the output directory, the temporary files and the exception raised.
SaveAudioAsM4b(outcome, partial, output_file, metadata, files, temps) ==
  LET temp_wav_path == TempName(temps)
      created == temps \cup {temp_wav_path}
      cleaned == created \ {temp_wav_path}       \* the finally clause
  IN  IF outcome = "write_error"                  \* sf.write, before the try
        THEN [files |-> files, temps |-> created, raised |-> outcome]
      ELSE IF outcome = "load_error"              \* AudioSegment.from_wav
        THEN [files |-> files, temps |-> cleaned, raised |-> outcome]
      ELSE IF outcome = "export_error"            \* audio.export
        THEN [files |-> IF partial THEN WriteFile(files, Exported(output_file))
                        ELSE files,
              temps |-> cleaned, raised |-> outcome]
      ELSE IF outcome = "tag_error"               \* MP4(...) ... save()
        THEN [files |-> WriteFile(files, Exported(output_file)),
              temps |-> cleaned, raised |-> outcome]
      ELSE [files |-> WriteFile(files, Tagged(output_file, metadata)),
            temps |-> cleaned, raised |-> "none"]

\* ------------------------------------------------------------ the script
NoText == <<>>

\* the items the specification calls retained: documents whose cleaned text
\* has at least MinChapterLen characters
RetainedIdx(its) ==
  {i \in 1..Len(its) :
     its[i].type = "document" /\ Len(CleanText(its[i].text)) >= MinChapterLen}

Init ==
  /\ pc = "main"
  /\ epub_exists \in BOOLEAN
  /\ items \in (IF epub_exists THEN Books ELSE {<<>>})
  /\ retained = RetainedIdx(items)
  /\ dir_created = FALSE
  /\ chapters = <<>>
  /\ total_chapters = 0
  /\ idx = 1
  /\ chapter_audio = 0
  /\ yielded = <<>>
  /\ out_files = {}
  /\ temp_files = {}
  /\ messages = {}
  /\ raised = "none"
  /\ t_in = NoText /\ t_prev = NoText /\ t_out = NoText /\ t_stage = "none"

\* the test left out: generate_audiobook is called whatever the path
InputFoundAlways(exists) == TRUE

\* line 240
InputFound(exists) == exists

\* lines 233-253: the entry point, up to the call of generate_audiobook
Main ==
  /\ pc = "main"
  /\ IF InputFound(epub_exists)
       THEN pc' = "generate" /\ UNCHANGED messages
       ELSE pc' = "done" /\ messages' = messages \cup {"not_found"}
  /\ UNCHANGED <<epub_exists, items, retained, dir_created, chapters,
                 total_chapters, idx, chapter_audio, yielded, out_files,
                 temp_files, raised>>
  /\ UNCHANGED textVars

\* lines 157-162: os.makedirs, then get_book_metadata, whose read_epub raises
\* when the file is missing and may raise on a malformed one
ReadMetadata ==
  /\ pc = "generate"
  /\ dir_created' = TRUE
  /\ \E ok \in BOOLEAN :
       IF ok /\ epub_exists
         THEN pc' = "extract" /\ UNCHANGED raised
         ELSE pc' = "error" /\ raised' = "read_error"
  /\ UNCHANGED <<epub_exists, items, retained, chapters, total_chapters, idx,
                 chapter_audio, yielded, out_files, temp_files, messages>>
  /\ UNCHANGED textVars

\* lines 165-170: extract_chapters_from_epub, total_chapters, KPipeline(...)
Extract ==
  /\ pc = "extract"
  /\ chapters' = ExtractChapters(items)
  /\ total_chapters' = Len(chapters')
  /\ \E ok \in BOOLEAN :
       IF ok THEN pc' = "loop" /\ UNCHANGED raised
             ELSE pc' = "error" /\ raised' = "pipeline_error"
  /\ UNCHANGED <<epub_exists, items, retained, dir_created, idx,
                 chapter_audio, yielded, out_files, temp_files, messages>>
  /\ UNCHANGED textVars

\* lines 173-189: the next chapter of the list is synthesized; the generator
\* yields n segments, or raises
Synthesize ==
  /\ pc = "loop"
  /\ idx <= Len(chapters)
  /\ \/ \E n \in 0..MaxSegs :
          /\ chapter_audio' = n
          /\ yielded' = Append(yielded, n)
          /\ pc' = "assemble"
          /\ UNCHANGED raised
     \/ /\ pc' = "error"
        /\ raised' = "synthesis_error"
        /\ UNCHANGED <<chapter_audio, yielded>>
  /\ UNCHANGED <<epub_exists, items, retained, dir_created, chapters,
                 total_chapters, idx, out_files, temp_files, messages>>
  /\ UNCHANGED textVars

\* the test left out: the chapter is saved whatever was collected
HasAudioAlways(n) == TRUE

\* line 192: the truth value of the list chapter_audio
HasAudio(n) == n > 0

\* lines 192-211: the chapter is skipped when nothing was collected, and
\* otherwise saved by save_audio_as_m4b, which returns or raises
SaveChapter ==
  /\ pc = "assemble"
  /\ LET ch == chapters[idx] IN
     IF ~HasAudio(chapter_audio)
       THEN /\ pc' = "loop"
            /\ idx' = idx + 1
            /\ UNCHANGED <<out_files, temp_files, raised>>
       ELSE \E outcome \in SaveOutcomes, partial \in BOOLEAN :
              LET r == SaveAudioAsM4b(outcome, partial, OutputFile(ch.num),
                          ChapterMetadata(ch.num, ch.title, total_chapters),
                          out_files, temp_files)
              IN  /\ out_files' = r.files
                  /\ temp_files' = r.temps
                  /\ raised' = r.raised
                  /\ IF r.raised = "none"
                       THEN pc' = "loop" /\ idx' = idx + 1
                       ELSE pc' = "error" /\ UNCHANGED idx
  /\ chapter_audio' = 0
  /\ UNCHANGED <<epub_exists, items, retained, dir_created, chapters,
                 total_chapters, yielded, messages>>
  /\ UNCHANGED textVars

\* lines 213-216: the loop is over
Complete ==
  /\ pc = "loop"
  /\ idx > Len(chapters)
  /\ pc' = "done"
  /\ messages' = messages \cup {"complete"}
  /\ UNCHANGED <<epub_exists, items, retained, dir_created, chapters,
                 total_chapters, idx, chapter_audio, yielded, out_files,
                 temp_files, raised>>
  /\ UNCHANGED textVars

Next == Main \/ ReadMetadata \/ Extract \/ Synthesize \/ SaveChapter \/ Complete

Spec == Init /\ [][Next]_vars

\* ------------------------------------------ the text specification
\* The clean-up of lines 64-65 applied step by step to every text of length
\* at most MaxLen: line 64, then either line 65 or line 64 once more.
InitText ==
  /\ t_in \in Texts(MaxLen)
  /\ t_prev = t_in
  /\ t_out = t_in
  /\ t_stage = "raw"
  /\ pc = "text"
  /\ epub_exists = FALSE
  /\ items = <<>>
  /\ retained = {}
  /\ dir_created = FALSE
  /\ chapters = <<>>
  /\ total_chapters = 0
  /\ idx = 1
  /\ chapter_audio = 0
  /\ yielded = <<>>
  /\ out_files = {}
  /\ temp_files = {}
  /\ messages = {}
  /\ raised = "none"

\* line 64
Collapse ==
  /\ t_stage \in {"raw", "sub"}
  /\ t_prev' = t_out
  /\ t_out' = ReSub(t_out)
  /\ t_stage' = IF t_stage = "raw" THEN "sub" ELSE "sub2"
  /\ UNCHANGED t_in
  /\ UNCHANGED runVars

\* line 65
StripText ==
  /\ t_stage = "sub"
  /\ t_prev' = t_out
  /\ t_out' = Strip(t_out)
  /\ t_stage' = "clean"
  /\ UNCHANGED t_in
  /\ UNCHANGED runVars

NextText == Collapse \/ StripText

SpecText == InitText /\ [][NextText]_vars

\* ================================================================ claims
\* ------------------------------------------------- notions the claims use
\* the maximal runs of whitespace of s, as pairs of their first and last
\* positions
WhitespaceRuns(s) ==
  {r \in (1..Len(s)) \X (1..Len(s)) :
     /\ r[1] <= r[2]
     /\ \A k \in r[1]..r[2] : IsSpace(s[k])
     /\ (r[1] = 1 \/ ~IsSpace(s[r[1] - 1]))
     /\ (r[2] = Len(s) \/ ~IsSpace(s[r[2] + 1]))}

NewlinesIn(s, r) == {k \in r[1]..r[2] : s[k] = NL}

RetainedCount == Cardinality(retained)

\* the k-th element of the set R of positions, in increasing order
Kth(R, k) == CHOOSE i \in R : Cardinality({j \in R : j <= i}) = k

DigitVal(c) == CHOOSE d \in 0..9 : DigitChar(d) = c

RECURSIVE DecimalVal(_)
DecimalVal(ds) ==
  IF ds = <<>> THEN 0
  ELSE 10 * DecimalVal(SubSeq(ds, 1, Len(ds) - 1)) + DigitVal(ds[Len(ds)])

\* the chapter number that appears in the name of an output file
ChapterNumOf(name) == DecimalVal(SubSeq(name, 2, Len(name) - 1))

FileNums == {ChapterNumOf(f.name) : f \in out_files}

ZeroSegmentChapters == {k \in DOMAIN yielded : yielded[k] = 0}

RunCompleted == pc = "done" /\ "complete" \in messages

\* the run was ended by an exception raised in the loop over the chapters
RunAborted ==
  pc = "error" /\ raised \in (SaveOutcomes \cup {"synthesis_error"}) \ {"ok"}

\* extract_chapters_from_epub has just returned (the list is not changed
\* afterwards)
Extracted ==
  \/ pc = "loop" /\ idx = 1
  \/ pc = "error" /\ raised = "pipeline_error"

\* ---------------------------------------------------------------- C1
\* C1 (as claimed): after every call of save_audio_as_m4b, returned or
\* raised, the temporary WAV file the call created does not exist.  The call
\* is one step of the model, so no temporary file exists in any state.
C1_TempFileNeverPersists == temp_files = {}

\* ---------------------------------------------------------------- C2
\* C2 (as claimed): after a run that completes, the number of output files
\* equals the number of retained items, whatever the synthesizer yields.
C2_FilesEqualRetained ==
  RunCompleted => Cardinality(out_files) = RetainedCount

\* C2 (amended): after a run that completes, the number of output files
\* equals the number of retained items less the number of chapters for which
\* the synthesizer yielded no segment.
C2_FilesEqualRetainedWithAudio ==
  RunCompleted =>
    Cardinality(out_files) = RetainedCount - Cardinality(ZeroSegmentChapters)

\* a completed run with a dropped item, a chapter of several segments and a
\* chapter of none
C2_Witness ==
  /\ RunCompleted
  /\ Len(items) > RetainedCount
  /\ RetainedCount = 2
  /\ retained = RetainedIdx(items)
  /\ yielded = <<2, 0>>
  /\ Cardinality(out_files) = 1

\* ---------------------------------------------------------------- C3
\* C3 (as claimed): after a run that completes, the chapter numbers in the
\* names of the output files are exactly 1..k for some k >= 0.
C3_NumbersContiguous ==
  RunCompleted => \E k \in 0..Len(items) : FileNums = 1..k

\* C3 (amended): after a run that completes, the chapter numbers in the
\* names of the output files are exactly the numbers in 1..n, n the number
\* of retained items, of the chapters for which the synthesizer yielded at
\* least one segment; they are 1..n when it did for every chapter.
C3_NumbersOfChaptersWithAudio ==
  RunCompleted =>
    LET n == RetainedCount
    IN  /\ Len(yielded) = n
        /\ FileNums = {k \in 1..n : yielded[k] > 0}
        /\ (ZeroSegmentChapters = {} => FileNums = 1..n)

\* a completed run on a book whose second item was dropped
C3_Witness ==
  /\ RunCompleted
  /\ Len(items) = 3
  /\ retained = {1, 3}
  /\ ZeroSegmentChapters = {}
  /\ FileNums = {1, 2}

\* ---------------------------------------------------------------- C4
\* C4 (as claimed): when the run is ended by an exception in the loop after
\* idx - 1 chapters were processed, the output files are exactly those of
\* these chapters: none exists for the chapter in which the exception was
\* raised or for a later one.
C4_OnlyProcessedChaptersHaveFiles ==
  RunAborted =>
    FileNums = {chapters[k].num : k \in {j \in 1..(idx - 1) : yielded[j] > 0}}

C6_CollapseIdempotent == t_stage = "sub2" => t_out = t_prev

\* the collapse applied twice to a text it changes
C6_Witness ==
  /\ t_stage = "sub2"
  /\ t_in = <<NL, NL, NL, NL, LetterX>>
  /\ t_out = <<NL, NL, LetterX>>

\* ---------------------------------------------------------------- C7
\* C7: the list returned by the extraction holds exactly the retained items,
\* in item order, numbered 1, 2, ..., n, each with its cleaned text and its
\* title.
C7_ExactlyRetainedInOrder ==
  Extracted =>
    LET R == RetainedIdx(items)
    IN  /\ Len(chapters) = Cardinality(R)
        /\ \A k \in 1..Len(chapters) :
             LET item == items[Kth(R, k)]
             IN  /\ chapters[k].num = k
                 /\ chapters[k].text = CleanText(item.text)
                 /\ chapters[k].title =
                      (IF item.headings = <<>> THEN item.name
                       ELSE Strip(item.headings[1]))

\* three document items, the second a 10-character stub: chapters 1 and 2
C7_Witness ==
  /\ Extracted
  /\ Len(items) = 3
  /\ \A i \in 1..3 : items[i].type = "document"
  /\ Len(items[2].text) = 10
  /\ Len(chapters) = 2
  /\ chapters[2].num = 2
  /\ chapters[2].title = ItemName(3)

\* ---------------------------------------------------------------- C8
\* C8: in every tagged output file the track total is the number of
\* retained items and the track number is the chapter number of the file's
\* name, between 1 and the total.
C8_TrackTotalIsRetainedCount ==
  LET n == RetainedCount
  IN  \A f \in out_files :
        f.tagged =>
          /\ f.trkn[2] = n
          /\ f.trkn[1] = ChapterNumOf(f.name)
          /\ 1 <= f.trkn[1] /\ f.trkn[1] <= f.trkn[2]

\* two tagged files of a book with more items than chapters
C8_Witness ==
  /\ Len(items) = 3
  /\ RetainedCount = 2
  /\ {f.trkn : f \in {g \in out_files : g.tagged}} = {<<1, 2>>, <<2, 2>>}

\* ---------------------------------------------------------------- C9
\* C9: when the input path does not exist the script prints the message and
\* ends without an exception, the output directory is not created and no
\* file is written.
C9_MissingInputIsNoOp ==
  (~epub_exists /\ pc # "main") =>
    /\ pc = "done"
    /\ messages = {"not_found"}
    /\ raised = "none"
    /\ ~dir_created
    /\ out_files = {}
    /\ temp_files = {}

C9_Witness == ~epub_exists /\ pc = "done" /\ "not_found" \in messages

\* ---------------------------------------------------------------- C10
\* the step of the loop on a chapter for which nothing was yielded
C10_SkipStep ==
  (pc = "assemble" /\ chapter_audio = 0) =>
    /\ out_files' = out_files
    /\ temp_files' = temp_files
    /\ raised' = "none"
    /\ pc' = "loop"
    /\ idx' = idx + 1
    /\ chapters' = chapters

\* C10: a chapter for which the synthesizer yields no segment is skipped: no
\* temporary file, no output file, no exception, the loop goes on with the
\* next chapter, and in a completed run every chapter was synthesized and
\* every chapter with segments has the file of its extraction number.
C10_ZeroSegmentChapterSkipped ==
  /\ [][C10_SkipStep]_vars
  /\ [](RunCompleted =>
          /\ Len(yielded) = Len(chapters)
          /\ \A k \in 1..Len(chapters) :
               (yielded[k] > 0) <=>
                 (\E f \in out_files : f.name = OutputFile(chapters[k].num)))

\* a completed run whose first chapter was skipped and second was saved
C10_Witness ==
  /\ RunCompleted
  /\ Len(chapters) = 2
  /\ yielded = <<0, 1>>
  /\ {f.name : f \in out_files} = {OutputFile(2)}
  /\ temp_files = {}

====
